---------------------------- MODULE Spec2Model ----------------------------
(***************************************************************************)
(* Order-management backend (FastAPI + Tortoise ORM + pandas).             *)
(*                                                                         *)
(* State: the four tables (users, sales_orders, income_orders,             *)
(* invoice_orders), the response of the request handled last, the          *)
(* invocations in flight and the bearer tokens issued by login.            *)
(*                                                                         *)
(* Spec handles one request at a time: every action is one HTTP request,   *)
(* the router's role dependency followed by the handler body.              *)
(* SpecConcurrent runs report invocations as coroutines that are suspended *)
(* at each await (the three bulk fetches) while other requests run.        *)
(* SpecWriters handles the create, import and update requests of sales and *)
(* invoices one at a time; SpecInvoiceWriters runs the invoice writers as  *)
(* coroutines. SpecUsers adds login, create_user and delete_user.          *)
(*                                                                         *)
(* Conventions                                                             *)
(*   - Optional[T] / a nullable column / a NaN cell is a sequence of       *)
(*     length at most one: None is << >>, a value v is <<v>>.              *)
(*   - a stored amount (a DECIMAL(10,2) column) is a count of cents; an    *)
(*     amount in a request body (a float) is a count of tenths of a cent.  *)
(*   - a datetime is a tick count and a date is a day number, TicksPerDay  *)
(*     ticks to the day.                                                   *)
(*   - columns no modelled handler reads (bankorbill, description,         *)
(*     invoice_type, the invoices' created_at, the users' password hash)   *)
(*     are not carried.                                                    *)
(***************************************************************************)
EXTENDS Integers, Sequences, FiniteSets, TLC

VARIABLES users, sales, incomes, invoices, response, calls, tokens

vars == <<users, sales, incomes, invoices, response, calls, tokens>>

---------------------------------------------------------------------------
(* Bounds of the model *)

\* income_orders rows that may be inserted
MaxIncomes == 2

\* resolution of the clock: ticks in one calendar day
TicksPerDay == 2

---------------------------------------------------------------------------
(* Optional values *)

None == << >>

Some(v) == <<v>>

\* Python truthiness of an Optional[str]: None and "" are both falsy
TruthyStr(o) == o # None /\ o[1] # ""

\* Python truthiness of an Optional[date]: every date object is truthy
TruthyDate(o) == o # None

---------------------------------------------------------------------------
(* Input domains *)

\* primary keys the store hands out for sales_orders, in collation order;
\* the first is the text of an integer, the second is not
SaleIds == <<"1", "S2">>

SaleIdSet == {SaleIds[i] : i \in 1..Len(SaleIds)}

\* values of datetime.now(): tick 1 is day 0 with a time of day, tick
\* TicksPerDay is midnight of day 1
Timestamps == {1, TicksPerDay}

InvoiceNumbers == {"INV1", "INV2"}

\* bearer tokens: None is a missing or undecodable token, Some(u) a valid
\* token whose "sub" is u
Tokens == {None, Some("root"), Some("ivy"), Some("sam")}

\* the users table as deployed (create_user needs an admin to exist)
InitialUsers ==
    { [id |-> 1, username |-> "root", user_type |-> "admin",   is_active |-> TRUE],
      [id |-> 2, username |-> "ivy",  user_type |-> "incomer", is_active |-> TRUE],
      [id |-> 3, username |-> "sam",  user_type |-> "saler",   is_active |-> TRUE] }

---------------------------------------------------------------------------
(* ReportFilter *)

ReportFilter(cn, pn, ds, de, lo, hi) ==
    [customer_name |-> cn, product_name |-> pn, date_start |-> ds,
     date_end |-> de, min_total_amount |-> lo, max_total_amount |-> hi]

NoFilter == ReportFilter(None, None, None, None, None, None)

---------------------------------------------------------------------------
(* Responses *)

Response(endpoint, status, filter, data) ==
    [endpoint |-> endpoint, status |-> status, filter |-> filter, data |-> data]

NoResponse == Response("", 0, NoFilter, << >>)

---------------------------------------------------------------------------
(* auth.py *)

get_user(username) ==
    LET found == {u \in users : u.username = username}
    IN  IF found = {} THEN None ELSE Some(CHOOSE u \in found : TRUE)

\* the status get_current_user ends with: 200 when it returns the user
get_current_user_status(token) ==
    IF token = None THEN 401
    ELSE IF get_user(token[1]) = None THEN 401
    ELSE IF ~get_user(token[1])[1].is_active THEN 400
    ELSE 200

\* require_roles_dep(allowed_roles): 200 when the dependency returns
require_roles_dep(allowed_roles, token) ==
    IF get_current_user_status(token) # 200
    THEN get_current_user_status(token)
    ELSE LET current_user == get_user(token[1])[1]
         IN  IF current_user.user_type = "admin"
                \/ current_user.user_type \in allowed_roles
             THEN 200
             ELSE 403

saler_only(token) == require_roles_dep({"saler"}, token)

income_only(token) == require_roles_dep({"incomer", "invoicer"}, token)

invoice_only(token) == require_roles_dep({"incomer", "invoicer"}, token)

\* a dependency that also lets the sales role in
report_only_with_saler(token) == require_roles_dep({"incomer", "invoicer", "saler"}, token)

report_only(token) == require_roles_dep({"incomer", "invoicer"}, token)

---------------------------------------------------------------------------
(* Store *)

\* invocations that may be in flight at once
MaxCalls == 2

\* invoice_orders rows that concurrent writers may insert
MaxInvoices == 3

Slots == 1..MaxCalls

\* a coroutine slot without an invocation: nothing fetched, no result, no
\* local variables of a handler
FreeCall ==
    [pc |-> "free", endpoint |-> "", token |-> None, filter |-> NoFilter,
     sales_orders |-> None, income_orders |-> None, invoice_orders |-> None,
     fetches |-> 0, result |-> NoResponse, moments |-> {}, locals |-> None]

Init ==
    /\ users = InitialUsers
    /\ sales = << >>
    /\ incomes = << >>
    /\ invoices = << >>
    /\ response = NoResponse
    /\ calls = [c \in Slots |-> FreeCall]
    /\ tokens = {}

StoredSaleIds == {sales[i].id : i \in 1..Len(sales)}

\* DecimalField(max_digits=10, decimal_places=2): the value written, a
\* count of tenths of a cent, is stored as a count of cents, rounded half up
Decimal2(value) == (value + 5) \div 10

\* SalesOrder.save: total_amount is recomputed from the fields in memory on
\* every save, then the row is written to its DECIMAL(10,2) columns
SalesOrder_save(id, customer_name, product_name, quantity, price_per_unit, created_at) ==
    [id |-> id, customer_name |-> customer_name, product_name |-> product_name,
     quantity |-> quantity, price_per_unit |-> Decimal2(price_per_unit),
     total_amount |-> Decimal2(quantity * price_per_unit), created_at |-> created_at]

\* POST /sales/sales/ : the key is not set by the handler, the store hands
\* out the next unused one
create_sales_order(token, sales_order, now) ==
    /\ Len(sales) < Len(SaleIds)
    /\ IF saler_only(token) # 200
       THEN /\ response' = Response("create_sales_order", saler_only(token), NoFilter, << >>)
            /\ UNCHANGED <<users, sales, incomes, invoices>>
       ELSE /\ sales' = Append(sales,
                   SalesOrder_save(SaleIds[Len(sales) + 1], sales_order.customer_name,
                                   sales_order.product_name, sales_order.quantity,
                                   sales_order.price_per_unit, now))
            /\ response' = Response("create_sales_order", 200, NoFilter, << >>)
            /\ UNCHANGED <<users, incomes, invoices>>

\* POST /income/incomes/ : the HTTPException(400) raised for a missing
\* sale is caught by the handler's own "except Exception" and re-raised
\* as a 500
create_income_order(token, income_order, now) ==
    /\ Len(incomes) < MaxIncomes
    /\ IF income_only(token) # 200
       THEN /\ response' = Response("create_income_order", income_only(token), NoFilter, << >>)
            /\ UNCHANGED <<users, sales, incomes, invoices>>
       ELSE IF income_order.sales_order_id \notin StoredSaleIds
       THEN /\ response' = Response("create_income_order", 500, NoFilter, << >>)
            /\ UNCHANGED <<users, sales, incomes, invoices>>
       ELSE /\ incomes' = Append(incomes,
                   [id |-> Len(incomes) + 1,
                    sales_order_id |-> income_order.sales_order_id,
                    amount |-> Decimal2(income_order.amount),
                    created_at |-> now])
            /\ response' = Response("create_income_order", 200, NoFilter, << >>)
            /\ UNCHANGED <<users, sales, invoices>>

\* a validator that accepts every date
validate_invoice_date_any(v, now) == TRUE

\* InvoiceOrderCreate.validate_invoice_date / InvoiceOrderUpdate.validate_invoice_date
validate_invoice_date(v, now) == v <= now

\* a stored invoice; written_at is the datetime.now() of the request that
\* wrote the row last
InvoiceRow(id, sales_order_id, invoice_number, invoice_date, amount, tax_amount, now) ==
    [id |-> id, sales_order_id |-> sales_order_id, invoice_number |-> invoice_number,
     invoice_date |-> invoice_date, amount |-> Decimal2(amount),
     tax_amount |-> IF tax_amount = None THEN None ELSE Some(Decimal2(tax_amount[1])),
     written_at |-> now]

\* POST /invoice/invoices/ : a body that fails validation is answered 422
\* before the handler runs
create_invoice_order(token, invoice_order, now) ==
    IF invoice_only(token) # 200
    THEN /\ response' = Response("create_invoice_order", invoice_only(token), NoFilter, << >>)
         /\ UNCHANGED <<users, sales, incomes, invoices>>
    ELSE IF ~validate_invoice_date(invoice_order.invoice_date, now)
    THEN /\ response' = Response("create_invoice_order", 422, NoFilter, << >>)
         /\ UNCHANGED <<users, sales, incomes, invoices>>
    ELSE IF invoice_order.sales_order_id \notin StoredSaleIds
    THEN /\ response' = Response("create_invoice_order", 400, NoFilter, << >>)
         /\ UNCHANGED <<users, sales, incomes, invoices>>
    ELSE IF \E i \in 1..Len(invoices) :
                invoices[i].invoice_number = invoice_order.invoice_number
    THEN /\ response' = Response("create_invoice_order", 400, NoFilter, << >>)
         /\ UNCHANGED <<users, sales, incomes, invoices>>
    ELSE /\ invoices' = Append(invoices,
                InvoiceRow(Len(invoices) + 1, invoice_order.sales_order_id,
                           invoice_order.invoice_number, invoice_order.invoice_date,
                           invoice_order.amount, invoice_order.tax_amount, now))
         /\ response' = Response("create_invoice_order", 200, NoFilter, << >>)
         /\ UNCHANGED <<users, sales, incomes>>

---------------------------------------------------------------------------
(* pandas, as far as report.py uses it *)

\* pd.DataFrame(list of dicts): no rows means no columns either
DataFrame(values) ==
    [columns |-> IF values = << >> THEN {} ELSE DOMAIN values[1], rows |-> values]

\* DataFrame.empty
empty(df) == df.rows = << >> \/ df.columns = {}

\* the outcome of a pandas call that raised KeyError
KeyError == [columns |-> {"KeyError"}, rows |-> << >>]

\* pd.to_datetime(<datetime column>).dt.date : the time of day is dropped
to_date(ts) == ts \div TicksPerDay

\* pd.to_datetime(<date column>) : midnight of that day
to_datetime(d) == d * TicksPerDay

\* str(date)
date_str(d) == "2024-01-0" \o ToString(d + 1)

RECURSIVE concat(_)
concat(ss) == IF ss = << >> THEN << >> ELSE Head(ss) \o concat(Tail(ss))

RECURSIVE sum(_)
\* Series.sum(): NaN cells are skipped, an all-NaN or empty series sums to 0
sum(cells) ==
    IF cells = << >> THEN 0
    ELSE (IF Head(cells) = None THEN 0 ELSE Head(cells)[1]) + sum(Tail(cells))

\* Series.dropna()
dropna(cells) == SelectSeq(cells, LAMBDA c : c # None)

RECURSIVE join(_)
\* '\n'.join(strings)
join(strs) ==
    IF strs = << >> THEN ""
    ELSE IF Len(strs) = 1 THEN strs[1]
    ELSE strs[1] \o "\n" \o join(Tail(strs))

\* df_sales['created_at'] = pd.to_datetime(df_sales['created_at']).dt.date
sales_dates(df) ==
    [df EXCEPT !.rows =
        [i \in 1..Len(df.rows) |->
            [df.rows[i] EXCEPT !.created_at = to_date(df.rows[i].created_at)]]]

\* a second conversion that reads the dates as timestamps and truncates them
\* once more
sales_dates_again_truncating(df) ==
    [df EXCEPT !.rows =
        [i \in 1..Len(df.rows) |->
            [df.rows[i] EXCEPT !.created_at = to_date(df.rows[i].created_at)]]]

\* the same statement applied to a column that already holds dates
sales_dates_again(df) ==
    [df EXCEPT !.rows =
        [i \in 1..Len(df.rows) |->
            [df.rows[i] EXCEPT !.created_at = to_date(to_datetime(df.rows[i].created_at))]]]

\* astype + created_at to date + drop(columns=['id']) on df_income
income_prepared(df) ==
    IF empty(df) THEN df
    ELSE [columns |-> df.columns \ {"id"},
          rows |-> [i \in 1..Len(df.rows) |->
                      [sales_order_id |-> df.rows[i].sales_order_id,
                       amount |-> df.rows[i].amount,
                       created_at |-> to_date(df.rows[i].created_at)]]]

\* astype + drop(columns=['id']) on df_invoice
invoice_prepared(df) ==
    IF empty(df) THEN df
    ELSE [columns |-> df.columns \ {"id"},
          rows |-> [i \in 1..Len(df.rows) |->
                      [sales_order_id |-> df.rows[i].sales_order_id,
                       invoice_number |-> df.rows[i].invoice_number,
                       amount |-> df.rows[i].amount,
                       tax_amount |-> df.rows[i].tax_amount]]]

\* the right rows whose key equals a left row's key, in the right frame's order
matching(right_rows, key) == SelectSeq(right_rows, LAMBDA r : r.sales_order_id = key)

\* how='inner' instead: a left row without a match is dropped
left_join_inner(matches) == [k \in 1..Len(matches) |-> Some(matches[k])]

\* how='left': a left row pairs with each of its matches, and with a row of
\* NaN when it has none
left_join(matches) ==
    IF matches = << >> THEN << None >>
    ELSE [k \in 1..Len(matches) |-> Some(matches[k])]

\* a row of df_conbination_1: created_at is in both frames and gets the
\* suffixes _x, _y
income_joined(l, r) ==
    [id |-> l.id, customer_name |-> l.customer_name,
     product_name |-> l.product_name, quantity |-> l.quantity,
     price_per_unit |-> l.price_per_unit, total_amount |-> l.total_amount,
     created_at_x |-> l.created_at,
     sales_order_id |-> IF r = None THEN None ELSE Some(r[1].sales_order_id),
     amount |-> IF r = None THEN None ELSE Some(r[1].amount),
     created_at_y |-> IF r = None THEN None ELSE Some(r[1].created_at)]

\* a row of df_conbination_2: sales_order_id and amount are in both frames
\* and get the suffixes _x, _y
invoice_joined(l, r) ==
    [id |-> l.id, customer_name |-> l.customer_name,
     product_name |-> l.product_name, quantity |-> l.quantity,
     price_per_unit |-> l.price_per_unit, total_amount |-> l.total_amount,
     created_at_x |-> l.created_at_x,
     created_at_y |-> l.created_at_y,
     amount_x |-> l.amount,
     invoice_number |-> IF r = None THEN None ELSE Some(r[1].invoice_number),
     amount_y |-> IF r = None THEN None ELSE Some(r[1].amount),
     tax_amount |-> IF r = None THEN None ELSE r[1].tax_amount]

\* pd.merge(df_sales, df_income, left_on='id', right_on='sales_order_id', how='left')
merge_income(left, right) ==
    IF "id" \notin left.columns \/ "sales_order_id" \notin right.columns
    THEN KeyError
    ELSE [columns |-> (left.columns \ {"created_at"})
                        \cup {"created_at_x", "sales_order_id", "amount", "created_at_y"},
          rows |-> concat(
            [i \in 1..Len(left.rows) |->
                LET m == left_join(matching(right.rows, left.rows[i].id))
                IN  [k \in 1..Len(m) |-> income_joined(left.rows[i], m[k])]])]

\* pd.merge(df_conbination_1, df_invoice, left_on='id', right_on='sales_order_id', how='left')
merge_invoice(left, right) ==
    IF "id" \notin left.columns \/ "sales_order_id" \notin right.columns
    THEN KeyError
    ELSE [columns |-> (left.columns \ {"sales_order_id", "amount"})
                        \cup {"sales_order_id_x", "amount_x", "sales_order_id_y",
                              "invoice_number", "amount_y", "tax_amount"},
          rows |-> concat(
            [i \in 1..Len(left.rows) |->
                LET m == left_join(matching(right.rows, left.rows[i].id))
                IN  [k \in 1..Len(m) |-> invoice_joined(left.rows[i], m[k])]])]

\* the grouping key of a joined row
group_key(r) ==
    [id |-> r.id, customer_name |-> r.customer_name, product_name |-> r.product_name,
     quantity |-> r.quantity, price_per_unit |-> r.price_per_unit,
     total_amount |-> r.total_amount, created_at_x |-> r.created_at_x]

\* position of a sales id in collation order
id_rank(id) == CHOOSE i \in 1..Len(SaleIds) : SaleIds[i] = id

RECURSIVE sorted_keys(_)
\* groupby(sort=True): the distinct keys in ascending order (id leads the
\* key and is the primary key of sales_orders)
sorted_keys(keys) ==
    IF keys = {} THEN << >>
    ELSE LET k == CHOOSE x \in keys : \A y \in keys : id_rank(x.id) <= id_rank(y.id)
         IN  <<k>> \o sorted_keys(keys \ {k})

GroupColumns ==
    {"id", "customer_name", "product_name", "quantity", "price_per_unit",
     "total_amount", "created_at_x"}

AggColumns == {"created_at_y", "amount_x", "invoice_number", "amount_y", "tax_amount"}

\* lambda x: '\n'.join(x.dropna().astype(str)) on a column of dates
join_dates(cells) ==
    LET kept == dropna(cells)
    IN  join([i \in 1..Len(kept) |-> date_str(kept[i][1])])

\* lambda x: '\n'.join(x.dropna().astype(str)) on a column of strings
join_strs(cells) ==
    LET kept == dropna(cells)
    IN  join([i \in 1..Len(kept) |-> kept[i][1]])

\* 'sum' with min_count=1: the sum of a group without a number is NaN
agg_sum_min_count(cells) ==
    IF dropna(cells) = << >> THEN None ELSE Some(sum(cells))

\* 'sum' as groupby applies it (min_count=0): the cell of the output frame
agg_sum(cells) == Some(sum(cells))

\* one output row: the key and the five aggregates of its group, each
\* aggregate a cell that could hold NaN
agg(k, g) ==
    [id |-> k.id, customer_name |-> k.customer_name, product_name |-> k.product_name,
     quantity |-> k.quantity, price_per_unit |-> k.price_per_unit,
     total_amount |-> k.total_amount, created_at_x |-> k.created_at_x,
     created_at_y |-> Some(join_dates([i \in 1..Len(g) |-> g[i].created_at_y])),
     amount_x |-> agg_sum([i \in 1..Len(g) |-> g[i].amount_x]),
     invoice_number |-> Some(join_strs([i \in 1..Len(g) |-> g[i].invoice_number])),
     amount_y |-> agg_sum([i \in 1..Len(g) |-> g[i].amount_y]),
     tax_amount |-> agg_sum([i \in 1..Len(g) |-> g[i].tax_amount])]

\* df.groupby([...], dropna=False).agg({...}).reset_index()
groupby_agg(df) ==
    IF ~(GroupColumns \subseteq df.columns /\ AggColumns \subseteq df.columns)
    THEN KeyError
    ELSE LET keys == sorted_keys({group_key(df.rows[i]) : i \in 1..Len(df.rows)})
         IN  [columns |-> GroupColumns \cup AggColumns,
              rows |-> [n \in 1..Len(keys) |->
                          agg(keys[n],
                              SelectSeq(df.rows, LAMBDA r : group_key(r) = keys[n]))]]

---------------------------------------------------------------------------
(* report.py *)

\* get_report_overview, lines 48-67: dates, the six filters, dates again
overview_sales(df_sales, filter) ==
    IF empty(df_sales) THEN df_sales
    ELSE LET d0 == sales_dates(df_sales)
             f1 == IF TruthyStr(filter.customer_name)
                   THEN [d0 EXCEPT !.rows = SelectSeq(d0.rows, LAMBDA r : r.customer_name = filter.customer_name[1])]
                   ELSE d0
             f2 == IF TruthyStr(filter.product_name)
                   THEN [f1 EXCEPT !.rows = SelectSeq(f1.rows, LAMBDA r : r.product_name = filter.product_name[1])]
                   ELSE f1
             f3 == IF TruthyDate(filter.date_start)
                   THEN [f2 EXCEPT !.rows = SelectSeq(f2.rows, LAMBDA r : r.created_at >= filter.date_start[1])]
                   ELSE f2
             f4 == IF TruthyDate(filter.date_end)
                   THEN [f3 EXCEPT !.rows = SelectSeq(f3.rows, LAMBDA r : r.created_at <= filter.date_end[1])]
                   ELSE f3
             f5 == IF filter.min_total_amount # None
                   THEN [f4 EXCEPT !.rows = SelectSeq(f4.rows, LAMBDA r : r.total_amount >= filter.min_total_amount[1])]
                   ELSE f4
             f6 == IF filter.max_total_amount # None
                   THEN [f5 EXCEPT !.rows = SelectSeq(f5.rows, LAMBDA r : r.total_amount <= filter.max_total_amount[1])]
                   ELSE f5
         IN  IF ~empty(f6) THEN sales_dates_again(f6) ELSE f6

\* download_report_excel, lines 124-137: dates, the six filters
download_sales(df_sales, filter) ==
    IF empty(df_sales) THEN df_sales
    ELSE LET d0 == sales_dates(df_sales)
             f1 == IF TruthyStr(filter.customer_name)
                   THEN [d0 EXCEPT !.rows = SelectSeq(d0.rows, LAMBDA r : r.customer_name = filter.customer_name[1])]
                   ELSE d0
             f2 == IF TruthyStr(filter.product_name)
                   THEN [f1 EXCEPT !.rows = SelectSeq(f1.rows, LAMBDA r : r.product_name = filter.product_name[1])]
                   ELSE f1
             f3 == IF TruthyDate(filter.date_start)
                   THEN [f2 EXCEPT !.rows = SelectSeq(f2.rows, LAMBDA r : r.created_at >= filter.date_start[1])]
                   ELSE f2
             f4 == IF TruthyDate(filter.date_end)
                   THEN [f3 EXCEPT !.rows = SelectSeq(f3.rows, LAMBDA r : r.created_at <= filter.date_end[1])]
                   ELSE f3
             f5 == IF filter.min_total_amount # None
                   THEN [f4 EXCEPT !.rows = SelectSeq(f4.rows, LAMBDA r : r.total_amount >= filter.min_total_amount[1])]
                   ELSE f4
             f6 == IF filter.max_total_amount # None
                   THEN [f5 EXCEPT !.rows = SelectSeq(f5.rows, LAMBDA r : r.total_amount <= filter.max_total_amount[1])]
                   ELSE f5
         IN  f6

\* fillna('') on one cell
fillna(cell) == IF cell = None THEN "" ELSE cell[1]

\* df_bulk.fillna('').to_dict(orient='records'): the key columns come from
\* columns of sales_orders that are NOT NULL
records(df_bulk) ==
    [n \in 1..Len(df_bulk.rows) |->
        [df_bulk.rows[n] EXCEPT !.created_at_y = fillna(@),
                                !.amount_x = fillna(@),
                                !.invoice_number = fillna(@),
                                !.amount_y = fillna(@),
                                !.tax_amount = fillna(@)]]

\* an uncaught exception becomes FastAPI's 500; otherwise the records go out
report_response(endpoint, filter, df_bulk) ==
    IF df_bulk = KeyError
    THEN Response(endpoint, 500, filter, << >>)
    ELSE Response(endpoint, 200, filter, records(df_bulk))

\* get_report_overview, lines 43-106: df_bulk of the three fetched lists
overview_bulk(sales_orders, income_orders, invoice_orders, filter) ==
    LET df_sales   == overview_sales(DataFrame(sales_orders), filter)
        df_income  == income_prepared(DataFrame(income_orders))
        df_invoice == invoice_prepared(DataFrame(invoice_orders))
        df_conbination_1 == merge_income(df_sales, df_income)
        df_conbination_2 ==
            IF df_conbination_1 = KeyError THEN KeyError
            ELSE merge_invoice(df_conbination_1, df_invoice)
        df_bulk ==
            IF df_conbination_2 = KeyError THEN KeyError
            ELSE groupby_agg(df_conbination_2)
    IN  df_bulk

\* get_report_overview, lines 43-109, on the three fetched lists
overview_result(sales_orders, income_orders, invoice_orders, filter) ==
    report_response("get_report_overview", filter,
                    overview_bulk(sales_orders, income_orders, invoice_orders, filter))

\* download_report_excel, lines 119-176: df_bulk of the three fetched lists
download_bulk(sales_orders, income_orders, invoice_orders, filter) ==
    LET df_sales   == download_sales(DataFrame(sales_orders), filter)
        df_income  == income_prepared(DataFrame(income_orders))
        df_invoice == invoice_prepared(DataFrame(invoice_orders))
        df_conbination_1 == merge_income(df_sales, df_income)
        df_conbination_2 ==
            IF df_conbination_1 = KeyError THEN KeyError
            ELSE merge_invoice(df_conbination_1, df_invoice)
        df_bulk ==
            IF df_conbination_2 = KeyError THEN KeyError
            ELSE groupby_agg(df_conbination_2)
    IN  df_bulk

\* download_report_excel, lines 119-189, on the three fetched lists; data
\* holds the rows written to the sheet
download_result(sales_orders, income_orders, invoice_orders, filter) ==
    report_response("download_report_excel", filter,
                    download_bulk(sales_orders, income_orders, invoice_orders, filter))

\* a handler that saves the coerced creation dates back to the Sales
get_report_overview_saving(token, filter) ==
    /\ response' =
          IF report_only(token) # 200
          THEN Response("get_report_overview", report_only(token), NoFilter, << >>)
          ELSE overview_result(sales, incomes, invoices, filter)
    /\ sales' = IF report_only(token) # 200 THEN sales
                ELSE sales_dates(DataFrame(sales)).rows
    /\ UNCHANGED <<users, incomes, invoices>>

\* POST /report/overview/
get_report_overview(token, filter) ==
    /\ response' =
          IF report_only(token) # 200
          THEN Response("get_report_overview", report_only(token), NoFilter, << >>)
          ELSE overview_result(sales, incomes, invoices, filter)
    /\ UNCHANGED <<users, sales, incomes, invoices>>

\* POST /report/overview/download/
download_report_excel(token, filter) ==
    /\ response' =
          IF report_only(token) # 200
          THEN Response("download_report_excel", report_only(token), NoFilter, << >>)
          ELSE download_result(sales, incomes, invoices, filter)
    /\ UNCHANGED <<users, sales, incomes, invoices>>

---------------------------------------------------------------------------
(* Requests *)

\* bodies of POST /sales/sales/
SalesOrderInputs ==
    { [customer_name |-> "Acme",      product_name |-> "Widget",
       quantity |-> 1, price_per_unit |-> 100],
      [customer_name |-> "Acme Corp", product_name |-> "Widget",
       quantity |-> 2, price_per_unit |-> 100] }

\* POST /income/incomes/ : a body and the datetime.now() it is stored with
IncomeOrderInputs ==
    { [sales_order_id |-> s, amount |-> 50, now |-> 1] : s \in SaleIdSet }
    \cup
    { [sales_order_id |-> s, amount |-> 150, now |-> TicksPerDay] : s \in SaleIdSet }

\* POST /invoice/invoices/ : a body and the datetime.now() of its request
InvoiceOrderInputs ==
    { [sales_order_id |-> s, invoice_number |-> "INV1", invoice_date |-> 1,
       amount |-> 70, tax_amount |-> None, now |-> 1] : s \in SaleIdSet }
    \cup
    { [sales_order_id |-> s, invoice_number |-> "INV2", invoice_date |-> 1,
       amount |-> 90, tax_amount |-> Some(10), now |-> TicksPerDay] : s \in SaleIdSet }

\* filters on the two names
NameFilters ==
    { ReportFilter(cn, pn, None, None, None, None) :
        cn \in {None, Some(""), Some("Acme")},
        pn \in {None, Some("Wid"), Some("Widget")} }

\* filters on the creation date, among them the inverted range 1..0
DateFilters ==
    { ReportFilter(None, None, ds, de, None, None) :
        ds \in {None, Some(0), Some(1)},
        de \in {None, Some(0), Some(1)} }

\* filters on the total, among them the inverted range 20..10
AmountFilters ==
    { ReportFilter(None, None, None, None, lo, hi) :
        lo \in {None, Some(10), Some(20)},
        hi \in {None, Some(10), Some(20)} }

\* filters that combine a name, a date and a total
MixedFilters ==
    { ReportFilter(cn, None, ds, None, None, hi) :
        cn \in {None, Some("Acme")},
        ds \in {None, Some(1)},
        hi \in {None, Some(10)} }

\* bodies of POST /report/overview/ and /report/overview/download/
Filters == NameFilters \cup DateFilters \cup AmountFilters \cup MixedFilters

\* the server takes the next request once the last response has gone out
Idle == response = NoResponse

\* uvicorn hands the handler's response to the client
send_response ==
    /\ ~Idle
    /\ response' = NoResponse
    /\ UNCHANGED <<users, sales, incomes, invoices, calls, tokens>>

Next ==
    \/ Idle /\ \E t \in Tokens, b \in SalesOrderInputs, now \in Timestamps :
          create_sales_order(t, b, now) /\ UNCHANGED <<calls, tokens>>
    \/ Idle /\ \E t \in Tokens, b \in IncomeOrderInputs :
          create_income_order(t, b, b.now) /\ UNCHANGED <<calls, tokens>>
    \/ Idle /\ \E t \in Tokens, b \in InvoiceOrderInputs :
          create_invoice_order(t, b, b.now) /\ UNCHANGED <<calls, tokens>>
    \/ Idle /\ \E t \in Tokens, f \in Filters :
          get_report_overview(t, f) /\ UNCHANGED <<calls, tokens>>
    \/ Idle /\ \E t \in Tokens, f \in Filters :
          download_report_excel(t, f) /\ UNCHANGED <<calls, tokens>>
    \/ send_response

Spec == Init /\ [][Next]_vars

---------------------------------------------------------------------------
(* Report invocations as coroutines *)

\* the tables as they stand together at one moment
Store == <<sales, incomes, invoices>>

InFlight(c) == calls[c].pc \in {"fetch_sales", "fetch_incomes", "fetch_invoices"}

\* the users table with a disabled account next to the active ones
ConcurrentUsers ==
    InitialUsers \cup {[id |-> 4, username |-> "ina", user_type |-> "incomer", is_active |-> FALSE]}

\* the report requests of the callers: endpoint, token, body; among the
\* tokens one of a disabled user ("ina") and one of a deleted user ("gone")
CallRequests ==
    { <<"get_report_overview", Some("root"), NoFilter>>,
      <<"download_report_excel", Some("ivy"),
        ReportFilter(Some("Acme Corp"), None, None, None, None, None)>>,
      <<"get_report_overview", None, NoFilter>>,
      <<"download_report_excel", Some("sam"), NoFilter>>,
      <<"get_report_overview", Some("ina"), NoFilter>>,
      <<"download_report_excel", Some("gone"), NoFilter>> }

\* the router dependency, then the handler up to its first await
report_begin(c, endpoint, token, filter) ==
    /\ calls[c].pc = "free"
    /\ calls' = [calls EXCEPT ![c] =
          IF report_only(token) # 200
          THEN [FreeCall EXCEPT !.pc = "done", !.endpoint = endpoint, !.token = token,
                                !.result = Response(endpoint, report_only(token), NoFilter, << >>)]
          ELSE [FreeCall EXCEPT !.pc = "fetch_sales", !.endpoint = endpoint,
                                !.token = token, !.filter = filter,
                                !.moments = {Store}]]
    /\ UNCHANGED <<users, sales, incomes, invoices, response, tokens>>

\* a handler that catches the exception and issues the same fetch again
fetch_failed_retrying(call) == [call EXCEPT !.fetches = @ + 1]

\* an exception of the ORM leaves the handler: FastAPI answers 500
fetch_failed(call) ==
    [call EXCEPT !.pc = "done", !.fetches = @ + 1,
                 !.result = Response(call.endpoint, 500, call.filter, << >>)]

\* sales_orders = await SalesOrder.all().values()
fetch_sales_orders(c, ok) ==
    /\ calls[c].pc = "fetch_sales"
    /\ calls' = [calls EXCEPT ![c] =
          IF ok THEN [@ EXCEPT !.pc = "fetch_incomes", !.fetches = @ + 1,
                               !.sales_orders = Some(sales)]
          ELSE fetch_failed(@)]
    /\ UNCHANGED <<users, sales, incomes, invoices, response, tokens>>

\* income_orders = await IncomeOrder.all().values()
fetch_income_orders(c, ok) ==
    /\ calls[c].pc = "fetch_incomes"
    /\ calls' = [calls EXCEPT ![c] =
          IF ok THEN [@ EXCEPT !.pc = "fetch_invoices", !.fetches = @ + 1,
                               !.income_orders = Some(incomes)]
          ELSE fetch_failed(@)]
    /\ UNCHANGED <<users, sales, incomes, invoices, response, tokens>>

\* a body that reads the filter from a place shared by all invocations
\* (the one the first coroutine stored)
report_body_shared_filter(c, invoice_orders) ==
    IF calls[c].endpoint = "get_report_overview"
    THEN overview_result(calls[c].sales_orders[1], calls[c].income_orders[1],
                         invoice_orders, calls[1].filter)
    ELSE download_result(calls[c].sales_orders[1], calls[c].income_orders[1],
                         invoice_orders, calls[1].filter)

\* the rest of the handler, which has no await: DataFrames, filters, merges,
\* aggregation, serialization
report_body(c, invoice_orders) ==
    IF calls[c].endpoint = "get_report_overview"
    THEN overview_result(calls[c].sales_orders[1], calls[c].income_orders[1],
                         invoice_orders, calls[c].filter)
    ELSE download_result(calls[c].sales_orders[1], calls[c].income_orders[1],
                         invoice_orders, calls[c].filter)

\* invoice_orders = await InvoiceOrder.all().values(), then the body
fetch_invoice_orders(c, ok) ==
    /\ calls[c].pc = "fetch_invoices"
    /\ calls' = [calls EXCEPT ![c] =
          IF ok THEN [@ EXCEPT !.pc = "done", !.fetches = @ + 1,
                               !.invoice_orders = Some(invoices),
                               !.result = report_body(c, invoices)]
          ELSE fetch_failed(@)]
    /\ UNCHANGED <<users, sales, incomes, invoices, response, tokens>>

\* the response goes out and the coroutine ends
report_return(c) ==
    /\ calls[c].pc = "done"
    /\ calls' = [calls EXCEPT ![c] = FreeCall]
    /\ UNCHANGED <<users, sales, incomes, invoices, response, tokens>>

\* a write of another request, seen from the invocations in flight: each
\* records the tables as they stand after it
observed ==
    calls' = [c \in Slots |->
                IF InFlight(c)
                THEN [calls[c] EXCEPT !.moments = @ \cup {<<sales', incomes', invoices'>>}]
                ELSE calls[c]]

\* the requests that write while reports are in flight
ConcurrentSalesInputs == {b \in SalesOrderInputs : b.customer_name = "Acme Corp"}

ConcurrentIncomeInputs ==
    {b \in IncomeOrderInputs : b.sales_order_id = SaleIds[1] /\ b.amount = 150}

ConcurrentInvoiceInputs ==
    {b \in InvoiceOrderInputs : b.sales_order_id = SaleIds[1] /\ b.invoice_number = "INV2"}

\* a database that already holds one Sale with an Income and an Invoice
InitConcurrent ==
    /\ users = ConcurrentUsers
    /\ sales = <<SalesOrder_save(SaleIds[1], "Acme", "Widget", 1, 100, 1)>>
    /\ incomes = <<[id |-> 1, sales_order_id |-> SaleIds[1], amount |-> 5, created_at |-> 1]>>
    /\ invoices = <<InvoiceRow(1, SaleIds[1], "INV1", 1, 70, None, 1)>>
    /\ response = NoResponse
    /\ calls = [c \in Slots |-> FreeCall]
    /\ tokens = {}

NextConcurrent ==
    \/ \E c \in Slots, r \in CallRequests : report_begin(c, r[1], r[2], r[3])
    \/ \E c \in Slots, ok \in BOOLEAN : fetch_sales_orders(c, ok)
    \/ \E c \in Slots, ok \in BOOLEAN : fetch_income_orders(c, ok)
    \/ \E c \in Slots, ok \in BOOLEAN : fetch_invoice_orders(c, ok)
    \/ \E c \in Slots : report_return(c)
    \/ \E b \in ConcurrentSalesInputs :
          create_sales_order(Some("root"), b, TicksPerDay) /\ observed /\ UNCHANGED tokens
    \/ \E b \in ConcurrentIncomeInputs :
          create_income_order(Some("root"), b, b.now) /\ observed /\ UNCHANGED tokens
    \/ \E b \in ConcurrentInvoiceInputs :
          create_invoice_order(Some("root"), b, b.now) /\ observed /\ UNCHANGED tokens

SpecConcurrent == InitConcurrent /\ [][NextConcurrent]_vars

---------------------------------------------------------------------------
(* The other writers of sales_orders and invoice_orders *)

\* import_sales_orders: the rows of the sheet that are not skipped
valid_sales_rows(rows) ==
    SelectSeq(rows, LAMBDA row : ~(row.quantity <= 0 \/ row.price_per_unit <= 0))

\* POST /sales/sales/import/ with the rows of an .xlsx sheet that has the
\* required columns; the HTTPException(400) raised when no row was created
\* is caught by the handler's own "except Exception" and becomes a 500
import_sales_orders(token, rows, now) ==
    /\ Len(sales) + Len(rows) <= Len(SaleIds)
    /\ IF saler_only(token) # 200
       THEN /\ response' = Response("import_sales_orders", saler_only(token), NoFilter, << >>)
            /\ UNCHANGED <<users, sales, incomes, invoices>>
       ELSE LET kept == valid_sales_rows(rows)
            IN  IF kept = << >>
                THEN /\ response' = Response("import_sales_orders", 500, NoFilter, << >>)
                     /\ UNCHANGED <<users, sales, incomes, invoices>>
                ELSE /\ sales' = sales \o
                          [k \in 1..Len(kept) |->
                              SalesOrder_save(SaleIds[Len(sales) + k], kept[k].customer_name,
                                              kept[k].product_name, kept[k].quantity,
                                              kept[k].price_per_unit, now)]
                     /\ response' = Response("import_sales_orders", 200, NoFilter, << >>)
                     /\ UNCHANGED <<users, incomes, invoices>>

\* PUT /sales/sales/{sales_order_id} : the path parameter is an int, the
\* key it is compared with is its text
update_sales_order(token, sales_order_id, sales_order) ==
    IF saler_only(token) # 200
    THEN /\ response' = Response("update_sales_order", saler_only(token), NoFilter, << >>)
         /\ UNCHANGED <<users, sales, incomes, invoices>>
    ELSE LET found == {i \in 1..Len(sales) : sales[i].id = ToString(sales_order_id)}
         IN  IF found = {}
             THEN /\ response' = Response("update_sales_order", 404, NoFilter, << >>)
                  /\ UNCHANGED <<users, sales, incomes, invoices>>
             ELSE /\ sales' = [i \in 1..Len(sales) |->
                       IF i \in found
                       THEN SalesOrder_save(sales[i].id, sales_order.customer_name,
                                            sales_order.product_name, sales_order.quantity,
                                            sales_order.price_per_unit, sales[i].created_at)
                       ELSE sales[i]]
                  /\ response' = Response("update_sales_order", 200, NoFilter, << >>)
                  /\ UNCHANGED <<users, incomes, invoices>>

RECURSIVE import_invoice_rows(_, _, _)
\* import_invoice_orders, the loop over the rows: a row is skipped when its
\* amount is invalid, its sale is not stored, its number is stored already
\* (also by an earlier row) or its date is in the future
import_invoice_rows(stored, rows, now) ==
    IF rows = << >> THEN stored
    ELSE LET row == Head(rows)
             ok  == /\ row.amount > 0
                    /\ row.sales_order_id \in StoredSaleIds
                    /\ ~\E i \in 1..Len(stored) : stored[i].invoice_number = row.invoice_number
                    /\ ~(row.invoice_date > now)
         IN  import_invoice_rows(
                 IF ok THEN Append(stored,
                               InvoiceRow(Len(stored) + 1, row.sales_order_id,
                                          row.invoice_number, row.invoice_date,
                                          row.amount, row.tax_amount, now))
                 ELSE stored,
                 Tail(rows), now)

\* POST /invoice/invoices/import/ with the rows of an .xlsx sheet that has
\* the required columns
import_invoice_orders(token, rows, now) ==
    IF invoice_only(token) # 200
    THEN /\ response' = Response("import_invoice_orders", invoice_only(token), NoFilter, << >>)
         /\ UNCHANGED <<users, sales, incomes, invoices>>
    ELSE IF import_invoice_rows(invoices, rows, now) = invoices
    THEN /\ response' = Response("import_invoice_orders", 400, NoFilter, << >>)
         /\ UNCHANGED <<users, sales, incomes, invoices>>
    ELSE /\ invoices' = import_invoice_rows(invoices, rows, now)
         /\ response' = Response("import_invoice_orders", 200, NoFilter, << >>)
         /\ UNCHANGED <<users, sales, incomes>>

\* PUT /invoice/invoices/{invoice_order_id} : a field of the body that is
\* not set is None
update_invoice_order(token, invoice_order_id, invoice_order, now) ==
    IF invoice_only(token) # 200
    THEN /\ response' = Response("update_invoice_order", invoice_only(token), NoFilter, << >>)
         /\ UNCHANGED <<users, sales, incomes, invoices>>
    ELSE IF /\ invoice_order.invoice_date # None
            /\ ~validate_invoice_date(invoice_order.invoice_date[1], now)
    THEN /\ response' = Response("update_invoice_order", 422, NoFilter, << >>)
         /\ UNCHANGED <<users, sales, incomes, invoices>>
    ELSE IF ~\E i \in 1..Len(invoices) : invoices[i].id = invoice_order_id
    THEN /\ response' = Response("update_invoice_order", 404, NoFilter, << >>)
         /\ UNCHANGED <<users, sales, incomes, invoices>>
    ELSE IF \/ /\ invoice_order.sales_order_id # None
               /\ invoice_order.sales_order_id[1] \notin StoredSaleIds
            \/ /\ invoice_order.invoice_number # None
               /\ \E i \in 1..Len(invoices) :
                     /\ invoices[i].invoice_number = invoice_order.invoice_number[1]
                     /\ invoices[i].id # invoice_order_id
    THEN /\ response' = Response("update_invoice_order", 400, NoFilter, << >>)
         /\ UNCHANGED <<users, sales, incomes, invoices>>
    ELSE /\ invoices' = [i \in 1..Len(invoices) |->
              IF invoices[i].id # invoice_order_id THEN invoices[i]
              ELSE [invoices[i] EXCEPT
                      !.sales_order_id = IF invoice_order.sales_order_id = None THEN @
                                         ELSE invoice_order.sales_order_id[1],
                      !.invoice_number = IF invoice_order.invoice_number = None THEN @
                                         ELSE invoice_order.invoice_number[1],
                      !.invoice_date = IF invoice_order.invoice_date = None THEN @
                                       ELSE invoice_order.invoice_date[1],
                      !.written_at = now]]
         /\ response' = Response("update_invoice_order", 200, NoFilter, << >>)
         /\ UNCHANGED <<users, sales, incomes>>

\* bodies of POST and PUT /sales/sales/ : a price of whole cents and one of
\* 12.5 cents
WriterSalesInputs ==
    { [customer_name |-> "Acme", product_name |-> "Widget",
       quantity |-> 1, price_per_unit |-> 100],
      [customer_name |-> "Acme", product_name |-> "Widget",
       quantity |-> 3, price_per_unit |-> 125] }

\* sheets of POST /sales/sales/import/ : one or two rows, a row of quantity
\* 0 among them
WriterSalesSheets ==
    LET rows == WriterSalesInputs \cup
                { [customer_name |-> "Acme", product_name |-> "Widget",
                   quantity |-> 0, price_per_unit |-> 100] }
    IN  { <<r>> : r \in rows } \cup { <<r, q>> : r \in rows, q \in WriterSalesInputs }

\* bodies of POST /invoice/invoices/ and rows of its import: dated at tick 1
\* or at tick TicksPerDay, which is in the future of a request made at tick 1
WriterInvoiceInputs ==
    { [sales_order_id |-> SaleIds[1], invoice_number |-> n, invoice_date |-> d,
       amount |-> 70, tax_amount |-> None] :
        n \in InvoiceNumbers, d \in Timestamps }

WriterInvoiceSheets ==
    { <<r>> : r \in WriterInvoiceInputs } \cup
    { <<r, q>> : r \in {b \in WriterInvoiceInputs : b.invoice_number = "INV1"},
                 q \in {b \in WriterInvoiceInputs : b.invoice_number = "INV2"} }

\* bodies of PUT /invoice/invoices/{id}
WriterInvoiceUpdates ==
    { [sales_order_id |-> None, invoice_number |-> n, invoice_date |-> d] :
        n \in {None, Some("INV2")},
        d \in {None} \cup {Some(t) : t \in Timestamps} }

WriterTokens == {Some("root"), Some("sam")}

\* the values datetime.now() may take in the next request: time does not
\* run backwards, so none is earlier than a timestamp already stored
Now ==
    { now \in Timestamps :
        /\ \A i \in 1..Len(sales) : sales[i].created_at <= now
        /\ \A i \in 1..Len(invoices) : invoices[i].written_at <= now }

NextWriters ==
    \/ \E t \in WriterTokens, b \in WriterSalesInputs, now \in Now :
          create_sales_order(t, b, now) /\ UNCHANGED <<calls, tokens>>
    \/ \E t \in WriterTokens, rows \in WriterSalesSheets, now \in Now :
          import_sales_orders(t, rows, now) /\ UNCHANGED <<calls, tokens>>
    \/ \E t \in WriterTokens, id \in 1..2, b \in WriterSalesInputs :
          update_sales_order(t, id, b) /\ UNCHANGED <<calls, tokens>>
    \/ \E t \in WriterTokens, b \in WriterInvoiceInputs, now \in Now :
          create_invoice_order(t, b, now) /\ UNCHANGED <<calls, tokens>>
    \/ \E t \in WriterTokens, rows \in WriterInvoiceSheets, now \in Now :
          import_invoice_orders(t, rows, now) /\ UNCHANGED <<calls, tokens>>
    \/ \E t \in WriterTokens, id \in 1..2, b \in WriterInvoiceUpdates, now \in Now :
          update_invoice_order(t, id, b, now) /\ UNCHANGED <<calls, tokens>>

SpecWriters == Init /\ [][NextWriters]_vars

---------------------------------------------------------------------------
(* InvoiceOrder.py, the writers as coroutines: every await on the ORM is a
   point where another request may run *)

\* the coroutine ends with an HTTP status
finished(call, status) ==
    [call EXCEPT !.pc = "done", !.locals = None,
                 !.result = Response(call.endpoint, status, NoFilter, << >>)]

\* stored invoices that carry a number, the row of one id left out
\* (id 0 leaves none out)
existing_invoice(invoice_number, excluded_id) ==
    {i \in 1..Len(invoices) : /\ invoices[i].invoice_number = invoice_number
                              /\ invoices[i].id # excluded_id}

\* create_invoice_order: dependency, validation of the body, and
\* SalesOrder.get_or_none
create_invoice_begin(c, token, invoice_order, now) ==
    /\ calls[c].pc = "free"
    /\ LET call == [FreeCall EXCEPT !.endpoint = "create_invoice_order", !.token = token]
       IN  calls' = [calls EXCEPT ![c] =
              IF invoice_only(token) # 200 THEN finished(call, invoice_only(token))
              ELSE IF ~validate_invoice_date(invoice_order.invoice_date, now)
              THEN finished(call, 422)
              ELSE IF invoice_order.sales_order_id \notin StoredSaleIds
              THEN finished(call, 400)
              ELSE [call EXCEPT !.pc = "create_check",
                                !.locals = Some([invoice_order |-> invoice_order,
                                                 now |-> now])]]
    /\ UNCHANGED <<users, sales, incomes, invoices, response, tokens>>

\* existing_invoice = await InvoiceOrder.get_or_none(invoice_number=...)
create_invoice_check(c) ==
    /\ calls[c].pc = "create_check"
    /\ calls' = [calls EXCEPT ![c] =
          IF existing_invoice(@.locals[1].invoice_order.invoice_number, 0) # {}
          THEN finished(@, 400)
          ELSE [@ EXCEPT !.pc = "create_write"]]
    /\ UNCHANGED <<users, sales, incomes, invoices, response, tokens>>

\* new_invoice_order = await InvoiceOrder.create(...)
create_invoice_write(c) ==
    /\ calls[c].pc = "create_write"
    /\ Len(invoices) < MaxInvoices
    /\ LET l == calls[c].locals[1]
       IN  invoices' = Append(invoices,
               InvoiceRow(Len(invoices) + 1, l.invoice_order.sales_order_id,
                          l.invoice_order.invoice_number, l.invoice_order.invoice_date,
                          l.invoice_order.amount, l.invoice_order.tax_amount, l.now))
    /\ calls' = [calls EXCEPT ![c] = finished(@, 200)]
    /\ UNCHANGED <<users, sales, incomes, response, tokens>>

\* update_invoice_order: dependency, validation of the body, and
\* db_order = await InvoiceOrder.get_or_none(id=invoice_order_id)
update_invoice_begin(c, token, invoice_order_id, invoice_order, now) ==
    /\ calls[c].pc = "free"
    /\ LET call == [FreeCall EXCEPT !.endpoint = "update_invoice_order", !.token = token]
           found == {i \in 1..Len(invoices) : invoices[i].id = invoice_order_id}
       IN  calls' = [calls EXCEPT ![c] =
              IF invoice_only(token) # 200 THEN finished(call, invoice_only(token))
              ELSE IF /\ invoice_order.invoice_date # None
                      /\ ~validate_invoice_date(invoice_order.invoice_date[1], now)
              THEN finished(call, 422)
              ELSE IF found = {} THEN finished(call, 404)
              ELSE [call EXCEPT !.pc = "update_check",
                                !.locals = Some([db_order |-> invoices[CHOOSE i \in found : TRUE],
                                                 invoice_order |-> invoice_order,
                                                 now |-> now])]]
    /\ UNCHANGED <<users, sales, incomes, invoices, response, tokens>>

\* the two lookups of update_invoice_order: the sale, and another invoice
\* with the new number
update_invoice_check(c) ==
    /\ calls[c].pc = "update_check"
    /\ calls' = [calls EXCEPT ![c] =
          LET l == @.locals[1]
          IN  IF \/ /\ l.invoice_order.sales_order_id # None
                    /\ l.invoice_order.sales_order_id[1] \notin StoredSaleIds
                 \/ /\ l.invoice_order.invoice_number # None
                    /\ existing_invoice(l.invoice_order.invoice_number[1], l.db_order.id) # {}
              THEN finished(@, 400)
              ELSE [@ EXCEPT !.pc = "update_write"]]
    /\ UNCHANGED <<users, sales, incomes, invoices, response, tokens>>

\* setattr for every field that was set, then await db_order.save(): the
\* row of that id gets every field of the object in memory
update_invoice_write(c) ==
    /\ calls[c].pc = "update_write"
    /\ LET l == calls[c].locals[1]
           saved == [l.db_order EXCEPT
                       !.sales_order_id = IF l.invoice_order.sales_order_id = None THEN @
                                          ELSE l.invoice_order.sales_order_id[1],
                       !.invoice_number = IF l.invoice_order.invoice_number = None THEN @
                                          ELSE l.invoice_order.invoice_number[1],
                       !.invoice_date = IF l.invoice_order.invoice_date = None THEN @
                                        ELSE l.invoice_order.invoice_date[1],
                       !.written_at = l.now]
       IN  invoices' = [i \in 1..Len(invoices) |->
                          IF invoices[i].id = saved.id THEN saved ELSE invoices[i]]
    /\ calls' = [calls EXCEPT ![c] = finished(@, 200)]
    /\ UNCHANGED <<users, sales, incomes, response, tokens>>

\* import_invoice_orders: dependency and the sheet read into rows
import_invoice_begin(c, token, rows, now) ==
    /\ calls[c].pc = "free"
    /\ LET call == [FreeCall EXCEPT !.endpoint = "import_invoice_orders", !.token = token]
       IN  calls' = [calls EXCEPT ![c] =
              IF invoice_only(token) # 200 THEN finished(call, invoice_only(token))
              ELSE [call EXCEPT !.pc = "import_check",
                                !.locals = Some([rows |-> rows, created_orders |-> 0,
                                                 now |-> now])]]
    /\ UNCHANGED <<users, sales, incomes, invoices, response, tokens>>

\* the loop of import_invoice_orders on its next row, up to the lookup of
\* the invoice number: a row that fails is skipped
import_invoice_check(c) ==
    /\ calls[c].pc = "import_check"
    /\ calls[c].locals[1].rows # << >>
    /\ calls' = [calls EXCEPT ![c] =
          LET row == Head(@.locals[1].rows)
          IN  IF /\ row.amount > 0
                 /\ row.sales_order_id \in StoredSaleIds
                 /\ existing_invoice(row.invoice_number, 0) = {}
              THEN [@ EXCEPT !.pc = "import_write"]
              ELSE [@ EXCEPT !.locals = Some([@[1] EXCEPT !.rows = Tail(@)])]]
    /\ UNCHANGED <<users, sales, incomes, invoices, response, tokens>>

\* the loop of import_invoice_orders from the date of the row to
\* invoice_order = await InvoiceOrder.create(...)
import_invoice_write(c) ==
    /\ calls[c].pc = "import_write"
    /\ Len(invoices) < MaxInvoices
    /\ LET l == calls[c].locals[1]
           row == Head(l.rows)
       IN  IF row.invoice_date > l.now
           THEN /\ calls' = [calls EXCEPT ![c] =
                      [@ EXCEPT !.pc = "import_check",
                                !.locals = Some([l EXCEPT !.rows = Tail(@)])]]
                /\ UNCHANGED invoices
           ELSE /\ invoices' = Append(invoices,
                      InvoiceRow(Len(invoices) + 1, row.sales_order_id, row.invoice_number,
                                 row.invoice_date, row.amount, row.tax_amount, l.now))
                /\ calls' = [calls EXCEPT ![c] =
                      [@ EXCEPT !.pc = "import_check",
                                !.locals = Some([l EXCEPT !.rows = Tail(@),
                                                          !.created_orders = @ + 1])]]
    /\ UNCHANGED <<users, sales, incomes, response, tokens>>

\* after the last row: 400 when no row was created
import_invoice_end(c) ==
    /\ calls[c].pc = "import_check"
    /\ calls[c].locals[1].rows = << >>
    /\ calls' = [calls EXCEPT ![c] =
          finished(@, IF @.locals[1].created_orders = 0 THEN 400 ELSE 200)]
    /\ UNCHANGED <<users, sales, incomes, invoices, response, tokens>>

\* bodies of the concurrent POST /invoice/invoices/ : for the stored Sale
\* and for one that is not stored
RaceCreateInputs ==
    { [sales_order_id |-> s, invoice_number |-> n, invoice_date |-> 1,
       amount |-> 70, tax_amount |-> None] :
        s \in SaleIdSet, n \in InvoiceNumbers }

\* sheets of the concurrent imports
RaceSheets ==
    LET row(n) == [sales_order_id |-> SaleIds[1], invoice_number |-> n,
                   invoice_date |-> 1, amount |-> 70, tax_amount |-> None]
    IN  { <<row("INV1")>>, <<row("INV2"), row("INV1")>> }

\* bodies of the concurrent PUT /invoice/invoices/{id}
RaceUpdates ==
    { [sales_order_id |-> None, invoice_number |-> Some(n), invoice_date |-> None] :
        n \in InvoiceNumbers }

\* a database that holds one Sale and no Invoice
InitInvoiceWriters ==
    /\ users = InitialUsers
    /\ sales = <<SalesOrder_save(SaleIds[1], "Acme", "Widget", 1, 100, 1)>>
    /\ incomes = << >>
    /\ invoices = << >>
    /\ response = NoResponse
    /\ calls = [c \in Slots |-> FreeCall]
    /\ tokens = {}

NextInvoiceWriters ==
    \/ \E c \in Slots, t \in WriterTokens, b \in RaceCreateInputs :
          create_invoice_begin(c, t, b, TicksPerDay)
    \/ \E c \in Slots : create_invoice_check(c)
    \/ \E c \in Slots : create_invoice_write(c)
    \/ \E c \in Slots, t \in WriterTokens, id \in 1..2, b \in RaceUpdates :
          update_invoice_begin(c, t, id, b, TicksPerDay)
    \/ \E c \in Slots : update_invoice_check(c)
    \/ \E c \in Slots : update_invoice_write(c)
    \/ \E c \in Slots, t \in WriterTokens, rows \in RaceSheets :
          import_invoice_begin(c, t, rows, TicksPerDay)
    \/ \E c \in Slots : import_invoice_check(c)
    \/ \E c \in Slots : import_invoice_write(c)
    \/ \E c \in Slots : import_invoice_end(c)
    \/ \E c \in Slots : report_return(c)

SpecInvoiceWriters == InitInvoiceWriters /\ [][NextInvoiceWriters]_vars

---------------------------------------------------------------------------
(* auth.py: login, create_user, delete_user *)

\* users rows that may ever be inserted
MaxUserId == 5

\* the values of UserTypeEnum, which the body of create_user is parsed with
UserTypeEnum == {"saler", "incomer", "ivoicer", "admin"}

\* allowed_types of create_user
allowed_types == {"saler", "incomer", "invoicer", "admin"}

\* the auto-increment key of the next users row: above every key in the
\* table and every key a token was issued to
next_user_id ==
    LET used == {u.id : u \in users} \cup {tk.user_id : tk \in tokens}
    IN  1 + (CHOOSE m \in used \cup {0} : \A n \in used : n <= m)

\* require_roles(["admin"]) around a handler: 200 when the handler is called
admin_only(token) == require_roles_dep({}, token)

\* POST /auth/login : the token carries the username as "sub" and an expiry
\* that no modelled request reaches; user_id records the users row it was
\* issued to
login(username, password_ok) ==
    /\ LET user == get_user(username)
       IN  IF user = None \/ ~password_ok
           THEN /\ response' = Response("login", 401, NoFilter, << >>)
                /\ UNCHANGED tokens
           ELSE IF ~user[1].is_active
           THEN /\ response' = Response("login", 400, NoFilter, << >>)
                /\ UNCHANGED tokens
           ELSE /\ tokens' = tokens \cup {[sub |-> user[1].username, user_id |-> user[1].id]}
                /\ response' = Response("login", 200, NoFilter, << >>)
    /\ UNCHANGED <<users, sales, incomes, invoices, calls>>

\* POST /auth/create_user with a body that UserCreate accepts: the
\* HTTPException(400) for a type outside allowed_types and the error of the
\* unique username both end as 400
create_user(token, username, user_type) ==
    /\ next_user_id <= MaxUserId
    /\ IF admin_only(token) # 200
       THEN /\ response' = Response("create_user", admin_only(token), NoFilter, << >>)
            /\ UNCHANGED users
       ELSE IF user_type \notin allowed_types \/ get_user(username) # None
       THEN /\ response' = Response("create_user", 400, NoFilter, << >>)
            /\ UNCHANGED users
       ELSE /\ users' = users \cup {[id |-> next_user_id, username |-> username,
                                     user_type |-> user_type, is_active |-> TRUE]}
            /\ response' = Response("create_user", 200, NoFilter, << >>)
    /\ UNCHANGED <<sales, incomes, invoices, calls, tokens>>

\* DELETE /auth/delete_user/{username}
delete_user(token, username) ==
    /\ IF admin_only(token) # 200
       THEN /\ response' = Response("delete_user", admin_only(token), NoFilter, << >>)
            /\ UNCHANGED users
       ELSE IF get_user(username) = None
       THEN /\ response' = Response("delete_user", 404, NoFilter, << >>)
            /\ UNCHANGED users
       ELSE /\ users' = users \ {get_user(username)[1]}
            /\ response' = Response("delete_user", 200, NoFilter, << >>)
    /\ UNCHANGED <<sales, incomes, invoices, calls, tokens>>

\* is_active is read by get_current_user and login and written by no
\* endpoint: an operator clears it in the users table
deactivate(username) ==
    /\ \E u \in users : u.username = username /\ u.is_active
    /\ users' = {[u EXCEPT !.is_active = IF u.username = username THEN FALSE ELSE @] :
                    u \in users}
    /\ UNCHANGED <<sales, incomes, invoices, response, calls, tokens>>

\* the users table as deployed: accounts inserted directly, among them an
\* invoice administrator under the type the User model names
DeployedUsers ==
    InitialUsers \cup {[id |-> 4, username |-> "vic", user_type |-> "ivoicer", is_active |-> TRUE]}

Usernames == {"root", "ivy", "sam", "vic", "neo"}

\* usernames of the create_user and delete_user requests
ManagedUsernames == {"ivy", "neo"}

\* the bearer tokens a client may send: the "sub" of a token it was issued
BearerTokens == {Some(tk.sub) : tk \in tokens}

\* requests to the endpoints behind a role dependency
protected_request(token) ==
    \/ \E b \in ConcurrentSalesInputs : create_sales_order(token, b, 1)
    \/ \E b \in ConcurrentIncomeInputs : create_income_order(token, b, b.now)
    \/ \E b \in ConcurrentInvoiceInputs : create_invoice_order(token, b, b.now)
    \/ get_report_overview(token, NoFilter)

InitUsers ==
    /\ users = DeployedUsers
    /\ sales = << >>
    /\ incomes = << >>
    /\ invoices = << >>
    /\ response = NoResponse
    /\ calls = [c \in Slots |-> FreeCall]
    /\ tokens = {}

NextUsers ==
    \/ \E u \in Usernames, password_ok \in BOOLEAN : login(u, password_ok)
    \/ \E t \in BearerTokens, u \in ManagedUsernames, ty \in UserTypeEnum :
          create_user(t, u, ty)
    \/ \E t \in BearerTokens, u \in ManagedUsernames : delete_user(t, u)
    \/ \E u \in ManagedUsernames : deactivate(u)
    \/ \E t \in BearerTokens : protected_request(t) /\ UNCHANGED <<calls, tokens>>

SpecUsers == InitUsers /\ [][NextUsers]_vars

---------------------------------------------------------------------------
(* Vocabulary of the properties *)

ReportEndpoints == {"get_report_overview", "download_report_excel"}

\* the last request reached the body of get_report_overview
OverviewRan ==
    response.endpoint = "get_report_overview" /\ response.status \in {200, 500}

\* the last request reached the body of download_report_excel
DownloadRan ==
    response.endpoint = "download_report_excel" /\ response.status \in {200, 500}

\* positions of the report rows of one sale
RowsOf(id) == {n \in 1..Len(response.data) : response.data[n].id = id}

ReportedIds == {response.data[n].id : n \in 1..Len(response.data)}

IncomesOf(id) == {i \in 1..Len(incomes) : incomes[i].sales_order_id = id}

InvoicesOf(id) == {i \in 1..Len(invoices) : invoices[i].sales_order_id = id}

RECURSIVE Total(_, _)
\* the sum of amount over a set of positions of a table
Total(table, positions) ==
    IF positions = {} THEN 0
    ELSE LET i == CHOOSE x \in positions : TRUE
         IN  table[i].amount + Total(table, positions \ {i})

\* the filter as section 4.1 reads it: a null field is no constraint, names
\* match exactly, both ranges are inclusive, dates ignore the time of day
Satisfies(s, f) ==
    /\ f.customer_name # None => s.customer_name = f.customer_name[1]
    /\ f.product_name # None => s.product_name = f.product_name[1]
    /\ f.date_start # None => s.created_at \div TicksPerDay >= f.date_start[1]
    /\ f.date_end # None => s.created_at \div TicksPerDay <= f.date_end[1]
    /\ f.min_total_amount # None => s.total_amount >= f.min_total_amount[1]
    /\ f.max_total_amount # None => s.total_amount <= f.max_total_amount[1]

SatisfyingIds(f) == {sales[i].id : i \in {j \in 1..Len(sales) : Satisfies(sales[j], f)}}

Inverted(f) ==
    \/ /\ f.date_start # None /\ f.date_end # None
       /\ f.date_start[1] > f.date_end[1]
    \/ /\ f.min_total_amount # None /\ f.max_total_amount # None
       /\ f.min_total_amount[1] > f.max_total_amount[1]

---------------------------------------------------------------------------
(* C1 *)

\* C1: with no filter field set, get_report_overview returns a report that
\* holds exactly one row per stored Sale: none missing, none twice, none for
\* an id that is not stored, in every stored state.
C1_OneRowPerSale ==
    (OverviewRan /\ response.filter = NoFilter) =>
        /\ response.status = 200
        /\ \A id \in StoredSaleIds : Cardinality(RowsOf(id)) = 1
        /\ ReportedIds \subseteq StoredSaleIds

---------------------------------------------------------------------------
(* C2 *)

\* C2: a Sale with exactly two Incomes and exactly one Invoice yields exactly
\* one row, whose amount_x is the sum of the two Income amounts and whose
\* invoice_number is that single invoice number, not repeated.
C2_TwoIncomesOneInvoice ==
    (OverviewRan /\ response.filter = NoFilter) =>
        \A id \in StoredSaleIds :
            (Cardinality(IncomesOf(id)) = 2 /\ Cardinality(InvoicesOf(id)) = 1) =>
                /\ response.status = 200
                /\ Cardinality(RowsOf(id)) = 1
                /\ \A n \in RowsOf(id) :
                     /\ response.data[n].amount_x = Total(incomes, IncomesOf(id))
                     /\ \A i \in InvoicesOf(id) :
                          response.data[n].invoice_number = invoices[i].invoice_number

---------------------------------------------------------------------------
(* C3 *)

\* C3: with Sales stored and the Invoice collection empty the report
\* succeeds with one row per Sale, invoice_number "" and invoice and tax sums
\* 0; with the Income collection empty likewise, income dates "" and income
\* sum 0.
C3_EmptyCollection ==
    (OverviewRan /\ response.filter = NoFilter /\ Len(sales) > 0) =>
        /\ invoices = << >> =>
             /\ response.status = 200
             /\ Len(response.data) = Len(sales)
             /\ \A n \in 1..Len(response.data) :
                  /\ response.data[n].invoice_number = ""
                  /\ response.data[n].amount_y = 0
                  /\ response.data[n].tax_amount = 0
        /\ incomes = << >> =>
             /\ response.status = 200
             /\ Len(response.data) = Len(sales)
             /\ \A n \in 1..Len(response.data) :
                  /\ response.data[n].created_at_y = ""
                  /\ response.data[n].amount_x = 0

---------------------------------------------------------------------------
(* C4 *)

\* the Sales without any Income and any Invoice, while some other Sale has
\* an Income and some other Sale has an Invoice
Unmatched ==
    { id \in StoredSaleIds :
        /\ IncomesOf(id) = {} /\ InvoicesOf(id) = {}
        /\ \E o \in StoredSaleIds \ {id} : IncomesOf(o) # {}
        /\ \E o \in StoredSaleIds \ {id} : InvoicesOf(o) # {} }

\* C4: a Sale with no matching Income and no matching Invoice, while other
\* Sales have some, is in the report exactly once (never twice under any
\* filter, once when no filter field is set), with "" for the income dates
\* and the invoice numbers and 0 for the three sums.
C4_UnmatchedSale ==
    OverviewRan =>
        \A id \in Unmatched :
            /\ response.status = 200
            /\ Cardinality(RowsOf(id)) <= 1
            /\ response.filter = NoFilter => Cardinality(RowsOf(id)) = 1
            /\ \A n \in RowsOf(id) :
                 /\ response.data[n].created_at_y = ""
                 /\ response.data[n].invoice_number = ""
                 /\ response.data[n].amount_x = 0
                 /\ response.data[n].amount_y = 0
                 /\ response.data[n].tax_amount = 0

\* an unfiltered report that holds the row of an unmatched Sale next to the
\* row of a Sale with an Income and an Invoice
C4_Witness ==
    /\ OverviewRan /\ response.filter = NoFilter /\ response.status = 200
    /\ \E id \in Unmatched : \E n \in RowsOf(id) :
          response.data[n].created_at_y = "" /\ response.data[n].amount_x = 0
    /\ \E n \in 1..Len(response.data) :
          response.data[n].amount_x > 0 /\ response.data[n].amount_y > 0

---------------------------------------------------------------------------
(* C5 *)

\* C5: when no stored Sale passes the filter, also when no Sale is stored
\* at all, get_report_overview returns the empty report and no error,
\* whatever Incomes and Invoices are stored.
C5_EmptyReport ==
    (OverviewRan /\ SatisfyingIds(response.filter) = {}) =>
        response.status = 200 /\ response.data = << >>

---------------------------------------------------------------------------
(* C6 *)

\* C6: a filter with an inverted date range or an inverted total range
\* yields a report with zero rows and never an error, in every stored
\* state.
C6_InvertedRange ==
    (OverviewRan /\ Inverted(response.filter)) =>
        response.status = 200 /\ response.data = << >>

---------------------------------------------------------------------------
(* C7 *)

\* C7: with customer_name (product_name) set, a returned report holds
\* exactly the Sales whose name equals the filter value and that pass the
\* other predicates: a Sale whose name only contains the value, or is
\* contained in it, is not in the report.
C7_ExactName ==
    (OverviewRan /\ response.status = 200) =>
        /\ response.filter.customer_name # None =>
             /\ \A n \in 1..Len(response.data) :
                  response.data[n].customer_name = response.filter.customer_name[1]
             /\ SatisfyingIds(response.filter) \subseteq ReportedIds
        /\ response.filter.product_name # None =>
             /\ \A n \in 1..Len(response.data) :
                  response.data[n].product_name = response.filter.product_name[1]
             /\ SatisfyingIds(response.filter) \subseteq ReportedIds

---------------------------------------------------------------------------
(* C8 *)

\* C8: for every filter, the Sales of a returned report are exactly the
\* stored Sales that satisfy all supplied predicates, bounds inclusive and
\* time of day ignored; only a null field imposes no constraint.
C8_AllSuppliedPredicates ==
    (OverviewRan /\ response.status = 200) =>
        ReportedIds = SatisfyingIds(response.filter)

---------------------------------------------------------------------------
(* C9 *)

\* C9: on the same stored state and filter, get_report_overview and
\* download_report_excel end alike (both with rows or both with an error)
\* and compute the same sequence of rows, field by field.
C9_SameRows ==
    /\ OverviewRan =>
         LET d == download_result(sales, incomes, invoices, response.filter)
         IN  d.status = response.status /\ d.data = response.data
    /\ DownloadRan =>
         LET o == overview_result(sales, incomes, invoices, response.filter)
         IN  o.status = response.status /\ o.data = response.data

\* a downloaded sheet of two rows under a filter that sets a date bound
C9_Witness ==
    /\ DownloadRan /\ response.status = 200
    /\ response.filter.date_end # None
    /\ Len(response.data) = 2

---------------------------------------------------------------------------
(* C10 *)

\* C10: a request to get_report_overview or download_report_excel, whether
\* it is rejected, fails or succeeds, leaves the stored Users, Sales, Incomes
\* and Invoices unchanged.
C10_ReadOnly ==
    [][(Idle /\ response'.endpoint \in ReportEndpoints) =>
          UNCHANGED <<users, sales, incomes, invoices>>]_vars

\* a report request that failed over a store holding a Sale
C10_Witness ==
    /\ response.endpoint \in ReportEndpoints
    /\ response.status = 500
    /\ Len(sales) > 0

---------------------------------------------------------------------------
(* C11 *)

\* C11: for every Sale in a returned report, amount_x is the sum of the
\* amounts of the Incomes of that Sale, each Income counted once, whatever
\* the number of Invoices of that Sale.
C11_IncomeSumOnce ==
    (OverviewRan /\ response.status = 200) =>
        \A n \in 1..Len(response.data) :
            response.data[n].amount_x = Total(incomes, IncomesOf(response.data[n].id))

---------------------------------------------------------------------------
(* C12 *)

RECURSIVE TotalTax(_)
\* the sum of tax_amount over a set of Invoice positions, a missing tax
\* counted as 0
TotalTax(positions) ==
    IF positions = {} THEN 0
    ELSE LET i == CHOOSE x \in positions : TRUE
             t == IF invoices[i].tax_amount = None THEN 0 ELSE invoices[i].tax_amount[1]
         IN  t + TotalTax(positions \ {i})

\* C12: for every Sale in a returned report, amount_y and tax_amount are the
\* sums of amount and of tax_amount over the Invoices of that Sale, each
\* Invoice counted once, whatever the number of Incomes of that Sale.
C12_InvoiceSumsOnce ==
    (OverviewRan /\ response.status = 200) =>
        \A n \in 1..Len(response.data) :
            /\ response.data[n].amount_y = Total(invoices, InvoicesOf(response.data[n].id))
            /\ response.data[n].tax_amount = TotalTax(InvoicesOf(response.data[n].id))

---------------------------------------------------------------------------
(* C13 *)

RECURSIVE Distinct(_)
\* a sequence without its repeated values, each kept where it first occurs
Distinct(xs) ==
    IF xs = << >> THEN << >>
    ELSE LET init == Distinct(SubSeq(xs, 1, Len(xs) - 1))
             last == xs[Len(xs)]
         IN  IF \E k \in 1..Len(init) : init[k] = last THEN init
             ELSE Append(init, last)

\* the creation dates of the Incomes of a Sale, in stored order
IncomeDatesOf(id) ==
    LET own == SelectSeq(incomes, LAMBDA r : r.sales_order_id = id)
    IN  [k \in 1..Len(own) |-> own[k].created_at \div TicksPerDay]

\* C13: for every Sale in a returned report, created_at_y is the
\* newline-joined list of the distinct creation dates of its Incomes in
\* encounter order: no date is repeated, neither for two Incomes of one day
\* nor for several Invoices.
C13_DistinctIncomeDates ==
    (OverviewRan /\ response.status = 200) =>
        \A n \in 1..Len(response.data) :
            LET ds == Distinct(IncomeDatesOf(response.data[n].id))
            IN  response.data[n].created_at_y = join([k \in 1..Len(ds) |-> date_str(ds[k])])

---------------------------------------------------------------------------
(* C14 *)

\* a caller who is authenticated, active and an incomer, invoicer or admin
Authorized(token) ==
    /\ token # None
    /\ \E u \in users : /\ u.username = token[1]
                        /\ u.is_active
                        /\ u.user_type \in {"incomer", "invoicer", "admin"}

---------------------------------------------------------------------------
(* C15 *)

\* C15: after any sequence of create_sales_order, import_sales_orders and
\* update_sales_order, every stored Sale has total_amount = quantity x
\* price_per_unit.
C15_TotalIsProduct ==
    \A i \in 1..Len(sales) :
        sales[i].total_amount = sales[i].quantity * sales[i].price_per_unit

---------------------------------------------------------------------------
(* C16 *)

\* no stored Invoice is dated later than the time it was written
NoFutureInvoice(stored) ==
    \A i \in 1..Len(stored) : stored[i].invoice_date <= stored[i].written_at

\* a create or update request that carries a future invoice_date is
\* rejected and leaves the stored Invoices unchanged
FutureDateRejected ==
    /\ \A t \in WriterTokens, b \in WriterInvoiceInputs, now \in Now :
          (b.invoice_date > now /\ create_invoice_order(t, b, now)) =>
              (response'.status # 200 /\ invoices' = invoices)
    /\ \A t \in WriterTokens, id \in 1..2, b \in WriterInvoiceUpdates, now \in Now :
          (/\ b.invoice_date # None /\ b.invoice_date[1] > now
           /\ update_invoice_order(t, id, b, now)) =>
              (response'.status # 200 /\ invoices' = invoices)

---------------------------------------------------------------------------
(* C17 *)

\* C17: a step in which one of the three bulk fetches fails ends the
\* invocation with an error and no rows, and an invocation that has ended
\* fetches nothing more (the failed fetch is not tried again).
C17_FetchFailure ==
    [][\A c \in Slots :
          /\ (\/ fetch_sales_orders(c, FALSE)
              \/ fetch_income_orders(c, FALSE)
              \/ fetch_invoice_orders(c, FALSE)) =>
                 /\ calls'[c].pc = "done"
                 /\ calls'[c].result.status = 500
                 /\ calls'[c].result.data = << >>
                 /\ calls'[c].fetches = calls[c].fetches + 1
          /\ calls[c].pc = "done" => calls'[c].fetches \in {calls[c].fetches, 0}]_vars

\* an invocation that fetched the Sales, failed on the Incomes and ended
\* with an error after two fetches
C17_Witness ==
    \E c \in Slots :
        /\ calls[c].pc = "done" /\ calls[c].fetches = 2
        /\ calls[c].sales_orders # None /\ calls[c].income_orders = None
        /\ calls[c].result.status = 500 /\ calls[c].result.data = << >>

---------------------------------------------------------------------------
(* C18 *)

\* df_bulk of the report that was just returned, before fillna('')
ReportFrame ==
    IF response.endpoint = "get_report_overview"
    THEN overview_bulk(sales, incomes, invoices, response.filter)
    ELSE download_bulk(sales, incomes, invoices, response.filter)

\* C18: every row a report returns is a row of the aggregated frame in
\* which each aggregate that is null has become the empty string and each
\* other aggregate is kept, so that no field of a returned row is null; and
\* the sums are numbers, not nulls, where nothing matches: amount_x is 0
\* for a Sale without Income, amount_y and tax_amount are 0 for a Sale
\* without Invoice.
C18_NoNullField ==
    (response.endpoint \in ReportEndpoints /\ response.status = 200) =>
        /\ Len(response.data) = Len(ReportFrame.rows)
        /\ \A n \in 1..Len(ReportFrame.rows) :
             LET row == ReportFrame.rows[n]
                 rec == response.data[n]
             IN  /\ rec.id = row.id
                 /\ rec.created_at_y = (IF row.created_at_y = None THEN "" ELSE row.created_at_y[1])
                 /\ rec.invoice_number = (IF row.invoice_number = None THEN "" ELSE row.invoice_number[1])
                 /\ rec.amount_x = (IF row.amount_x = None THEN "" ELSE row.amount_x[1])
                 /\ rec.amount_y = (IF row.amount_y = None THEN "" ELSE row.amount_y[1])
                 /\ rec.tax_amount = (IF row.tax_amount = None THEN "" ELSE row.tax_amount[1])
                 /\ IncomesOf(row.id) = {} => row.amount_x = Some(0)
                 /\ InvoicesOf(row.id) = {} =>
                        row.amount_y = Some(0) /\ row.tax_amount = Some(0)

\* a downloaded report with the row of a Sale that has an Income and no
\* Invoice, and the row of a Sale that has no Income
C18_Witness ==
    /\ DownloadRan /\ response.status = 200
    /\ \E n \in 1..Len(response.data) :
          /\ IncomesOf(response.data[n].id) # {}
          /\ InvoicesOf(response.data[n].id) = {}
          /\ response.data[n].amount_x > 0
          /\ response.data[n].invoice_number = ""
          /\ response.data[n].amount_y = 0 /\ response.data[n].tax_amount = 0
    /\ \E n \in 1..Len(response.data) :
          /\ IncomesOf(response.data[n].id) = {}
          /\ response.data[n].created_at_y = "" /\ response.data[n].amount_x = 0

---------------------------------------------------------------------------
(* C19 *)

\* what the invocation in slot c returns when it runs alone on the tables
\* of moment m
Alone(c, m) ==
    IF calls[c].endpoint = "get_report_overview"
    THEN overview_result(m[1], m[2], m[3], calls[c].filter)
    ELSE download_result(m[1], m[2], m[3], calls[c].filter)

\* the invocation in slot c made its three fetches
Fetched(c) == calls[c].pc = "done" /\ calls[c].invoice_orders # None

\* C19: an invocation during which the stored data did not change returns
\* exactly what it returns when it runs alone with its own filter, whatever
\* the other invocations in flight do.
C19_Independent ==
    \A c \in Slots :
        (Fetched(c) /\ Cardinality(calls[c].moments) = 1) =>
            \A m \in calls[c].moments : calls[c].result = Alone(c, m)

\* two invocations with different filters that ran interleaved on unchanged
\* data, each with its own answer
C19_Witness ==
    \E c, d \in Slots :
        /\ c # d /\ Fetched(c) /\ Fetched(d)
        /\ Cardinality(calls[c].moments) = 1 /\ calls[d].moments = calls[c].moments
        /\ calls[c].filter # calls[d].filter
        /\ calls[c].result.data # << >> /\ calls[d].result.data = << >>
        /\ calls[d].result.status = 200

---------------------------------------------------------------------------
(* C20 *)

\* C20: the rows an invocation returns are the aggregation of the Sales,
\* Incomes and Invoices as they stood together at one moment during the
\* invocation, under any interleaving with the requests that write.
C20_ConsistentSnapshot ==
    \A c \in Slots :
        Fetched(c) => \E m \in calls[c].moments : calls[c].result = Alone(c, m)

---------------------------------------------------------------------------
(* C21 *)

\* C21: no two stored Invoices share an invoice_number, in every state that
\* concurrent create_invoice_order, import_invoice_orders and
\* update_invoice_order requests reach, however their steps interleave.
C21_UniqueInvoiceNumber ==
    \A i, j \in 1..Len(invoices) :
        invoices[i].invoice_number = invoices[j].invoice_number => i = j

---------------------------------------------------------------------------
(* C22 *)

\* C22: a create_income_order request of an authorized caller whose
\* sales_order_id matches no stored Sale is answered 400, the status
\* create_invoice_order gives for that case, and stores no Income.
C22_MissingSaleIs400 ==
    [][\A t \in Tokens, b \in IncomeOrderInputs :
          ( /\ income_only(t) = 200
            /\ b.sales_order_id \notin StoredSaleIds
            /\ create_income_order(t, b, b.now) ) =>
                /\ response'.status = 400
                /\ incomes' = incomes]_vars

---------------------------------------------------------------------------
(* C23 *)

\* the users row a token was issued to is deleted or has is_active false
Revoked(tk) == ~\E u \in users : u.id = tk.user_id /\ u.is_active

\* C23: a request to a protected endpoint that carries a token issued to a
\* user who has since been deleted or has is_active false is rejected with
\* 401 or 400 and leaves the order data as it was (a rejected request never
\* reaches the handler, which is where the data is read).
C23_RevokedTokenRejected ==
    [][\A tk \in tokens :
          (Revoked(tk) /\ protected_request(Some(tk.sub))) =>
              /\ response'.status \in {401, 400}
              /\ UNCHANGED <<sales, incomes, invoices>>]_vars

---------------------------------------------------------------------------
(* C24 *)

\* C24: a create_user request of an admin for an unused username succeeds
\* for each of the four user types of UserTypeEnum and stores a user of that
\* type; and every active user whose type is the invoice administrator of
\* the User model and UserTypeEnum ("ivoicer") passes the dependency of the
\* invoice endpoints and that of the report endpoints.
C24_RoleNamesConsistent ==
    [][/\ \A u \in users :
             (u.user_type = "ivoicer" /\ u.is_active) =>
                 /\ invoice_only(Some(u.username)) = 200
                 /\ report_only(Some(u.username)) = 200
       /\ \A t \in BearerTokens, n \in ManagedUsernames, ty \in UserTypeEnum :
             ( /\ admin_only(t) = 200
               /\ get_user(n) = None
               /\ create_user(t, n, ty) ) =>
                   /\ response'.status = 200
                   /\ \E u \in users' : u.username = n /\ u.user_type = ty]_vars

=============================================================================
